---- MODULE Spec2Model ----
(***************************************************************************)
(* HybridStorage (src/bootstrap.js, lines 37-281): an LRU cache with a     *)
(* freshness window in front of a LevelDB engine.  Every async method is   *)
(* cut at its single await: the synchronous part up to the engine call,    *)
(* the engine's own step, the continuation after the await, and the        *)
(* settling of the returned promise.  The constructor (SpecConstruct) and   *)
(* the relay server of src/server/wss.js with its PeerConnection,          *)
(* PeerRepository and MessageService (SpecRelay, SpecBroadcast) are        *)
(* modelled next to it, each on variables of its own.                      *)
(***************************************************************************)
EXTENDS Integers, Sequences, FiniteSets, TLC

\* ----------------------------------------------------------------- bounds
\* cacheSize of the instance (the test suite's configuration).
CacheSize == 2
\* ttl of the instance, in clock ticks.
Ttl == 1
\* The clock (Date.now()) runs from 0 to MaxTime.
MaxTime == 2
\* Call slots that may be in flight at once in SpecOverlap.
MaxCalls == 2
\* Calls made in one run of SpecOverlap.
MaxStarts == 3

\* The numeric options given to the constructor range over 0..MaxOption.
MaxOption == 3
\* WebSocket connections the relay server accepts.
MaxConns == 3

\* The constructor's defaults.
DefaultCacheSize == 1000
DefaultTtl == 3600000

\* Keys are strings; the empty string is a legal key.
Keys == {"", "k1", "k2"}
Values == {"v1", "v2"}
\* The values put under each key: two values for one key (an update is seen),
\* one value for the others.
ValuesOf(k) == IF k = "k1" THEN Values ELSE {"v1"}

\* Map.get / db.get of a missing key.
NoVal == "<absent>"
NoTs == -1
NoEnc == <<>>

VARIABLES
  cache,            \* this.cache: key -> value (NoVal: no entry)
  cacheTimestamps,  \* this.cacheTimestamps: key -> cachedAt (NoTs: no entry)
  lruList,          \* this.lruList: keys, least recently used first
  isOpen,           \* this.isOpen
  store,            \* contents of the LevelDB database: key -> encoded value
  dbOpen,           \* the engine's own status (db.close() succeeded or not)
  now,              \* Date.now()
  call,             \* the calls in flight, one record per slot
  committed,        \* history: key -> value of the last successful put(k, v)
                    \*   not followed by the start of a put(k) or delete(k)
  deleted,          \* history: keys whose last delete(k) succeeded with no
                    \*   put(k) started since
  accessOrder,      \* history: the cached keys, ordered by the most recent put
                    \*   or get call of each (oldest first)
  unsynced,         \* history: cached keys whose entry was written by a put
                    \*   whose engine write failed
  durable,          \* history: keys with a successful put(k) and no successful
                    \*   delete(k) since
  started,          \* history: the calls started so far, counted up to MaxStarts
  options,          \* the argument of new HybridStorage(options)
  instance,         \* the constructor's progress and the fields it assigned
  peers,            \* PeerRepository.peers, in insertion order
  sockets,          \* the WebSocket of each connection: status, listeners, peer
  sent,             \* the ws.send calls of the last event, per WebSocket
  issued,           \* the peer ids createPeer has generated
  event             \* the last event the relay handled

cacheVars == <<cache, cacheTimestamps, lruList>>
histVars == <<committed, deleted, accessOrder, unsynced, durable>>
storageVars == <<cacheVars, isOpen, store, dbOpen, now, call, histVars, started>>
ctorVars == <<options, instance>>
relayVars == <<peers, sockets, sent, issued, event>>
vars == <<cache, cacheTimestamps, lruList, isOpen, store, dbOpen, now, call,
          committed, deleted, accessOrder, unsynced, durable, started,
          options, instance, peers, sockets, sent, issued, event>>

Slots == 1..MaxCalls

\* ------------------------------------------------------ the engine's codec
\* valueEncoding: 'json': the database holds the JSON text of a value.
Encode(v) == <<"json", v>>
\* A database opened without the value encoding hands back the stored text.
Decode_Raw(e) == e[1]
Decode(e) == e[2]

\* ------------------------------------------------------------ cache state
CacheState == [cache |-> cache, ts |-> cacheTimestamps, lru |-> lruList]

CachedKeys(cs) == {k \in Keys : cs.cache[k] # NoVal}
CacheCount(cs) == Cardinality(CachedKeys(cs))

RECURSIVE IndexOf(_, _, _)
\* Array.prototype.indexOf: first position of key in s at or after i, 0 if none.
IndexOf(s, key, i) ==
  IF i > Len(s) THEN 0
  ELSE IF s[i] = key THEN i
  ELSE IndexOf(s, key, i + 1)

\* splice(index, 1)
Splice(s, i) == SubSeq(s, 1, i - 1) \o SubSeq(s, i + 1, Len(s))

\* const index = lruList.indexOf(key); if (index > -1) lruList.splice(index, 1)
RemoveFromLru(s, key) ==
  LET i == IndexOf(s, key, 1) IN IF i > 0 THEN Splice(s, i) ELSE s

\* if (lruKey): undefined (empty list) and the empty string are both falsy.
Truthy(s) == Len(s) > 0 /\ s[1] # ""

\* The eviction block: lruKey = lruList[0]; if (lruKey) { delete; delete; shift }
EvictLru(cs) ==
  IF Truthy(cs.lru)
  THEN [cache |-> [cs.cache EXCEPT ![cs.lru[1]] = NoVal],
        ts    |-> [cs.ts EXCEPT ![cs.lru[1]] = NoTs],
        lru   |-> Tail(cs.lru)]
  ELSE cs

\* An eviction test that does not ask whether the key is already cached.
NeedsEviction_IgnoresKey(cs, key) == CacheCount(cs) >= CacheSize

\* if (this.cache.size >= this.cacheSize && !this.cache.has(key))
NeedsEviction(cs, key) == CacheCount(cs) >= CacheSize /\ cs.cache[key] = NoVal

\* An addToCache that keeps the value of a key it already holds.
addToCache_KeepsOldValue(cs, key, value, t) ==
  LET c1 == IF NeedsEviction(cs, key) THEN EvictLru(cs) ELSE cs
  IN [cache |-> [c1.cache EXCEPT ![key] = IF c1.cache[key] = NoVal THEN value ELSE @],
      ts    |-> [c1.ts EXCEPT ![key] = t],
      lru   |-> Append(RemoveFromLru(c1.lru, key), key)]

addToCache(cs, key, value, t) ==
  LET c1 == IF NeedsEviction(cs, key) THEN EvictLru(cs) ELSE cs
  IN [cache |-> [c1.cache EXCEPT ![key] = value],
      ts    |-> [c1.ts EXCEPT ![key] = t],
      lru   |-> Append(RemoveFromLru(c1.lru, key), key)]

\* get, after the engine read: evict when full, set, push.
GetAdmit(cs, key, value, t) ==
  LET c1 == IF CacheCount(cs) >= CacheSize THEN EvictLru(cs) ELSE cs
  IN [cache |-> [c1.cache EXCEPT ![key] = value],
      ts    |-> [c1.ts EXCEPT ![key] = t],
      lru   |-> Append(c1.lru, key)]

\* A get that drops the expired entry without the splice of the recency order.
ExpireInGet_KeepsOrder(cs, key) ==
  [cache |-> [cs.cache EXCEPT ![key] = NoVal],
   ts    |-> [cs.ts EXCEPT ![key] = NoTs],
   lru   |-> cs.lru]

\* get: "Remove expired entry".
ExpireInGet(cs, key) ==
  [cache |-> [cs.cache EXCEPT ![key] = NoVal],
   ts    |-> [cs.ts EXCEPT ![key] = NoTs],
   lru   |-> RemoveFromLru(cs.lru, key)]

\* A has that leaves the expired entry where it is.
ExpireInHas_KeepsEntry(cs, key) == cs

\* has: "Remove expired entry".
ExpireInHas(cs, key) ==
  [cache |-> [cs.cache EXCEPT ![key] = NoVal],
   ts    |-> [cs.ts EXCEPT ![key] = NoTs],
   lru   |-> RemoveFromLru(cs.lru, key)]

\* A delete that forgets this.cache.delete(key).
RemoveFromCache_KeepsValue(cs, key) ==
  [cache |-> cs.cache,
   ts    |-> [cs.ts EXCEPT ![key] = NoTs],
   lru   |-> RemoveFromLru(cs.lru, key)]

\* A delete that splices without the index > -1 test: splice(-1, 1) drops the
\* last key of the recency order when the key is not in it.
RemoveFromCache_NoIndexCheck(cs, key) ==
  LET i == IndexOf(cs.lru, key, 1) IN
  [cache |-> [cs.cache EXCEPT ![key] = NoVal],
   ts    |-> [cs.ts EXCEPT ![key] = NoTs],
   lru   |-> IF i > 0 THEN Splice(cs.lru, i)
             ELSE SubSeq(cs.lru, 1, Len(cs.lru) - 1)]

\* delete: "Remove from cache".
RemoveFromCache(cs, key) ==
  [cache |-> [cs.cache EXCEPT ![key] = NoVal],
   ts    |-> [cs.ts EXCEPT ![key] = NoTs],
   lru   |-> RemoveFromLru(cs.lru, key)]

\* A cache hit that moves the key to the tail and keeps its old timestamp.
Touch_KeepsTimestamp(cs, key, t) ==
  [cache |-> cs.cache,
   ts    |-> cs.ts,
   lru   |-> Append(RemoveFromLru(cs.lru, key), key)]

\* get's cache hit: move to the tail, refresh the timestamp.
Touch(cs, key, t) ==
  [cache |-> cs.cache,
   ts    |-> [cs.ts EXCEPT ![key] = t],
   lru   |-> Append(RemoveFromLru(cs.lru, key), key)]

\* A freshness test that rejects an entry aged exactly ttl.
Fresh_Strict(cs, key, t) == t - cs.ts[key] < Ttl

\* Date.now() - timestamp <= this.ttl
Fresh(cs, key, t) == t - cs.ts[key] <= Ttl

\* close(): cache.clear(); cacheTimestamps.clear(); lruList = []
Cleared ==
  [cache |-> [k \in Keys |-> NoVal], ts |-> [k \in Keys |-> NoTs], lru |-> <<>>]

\* A verifyDbOpen that never throws.
verifyDbOpen_NoCheck == TRUE
verifyDbOpen == isOpen

\* ------------------------------------------------------------ call records
\* pc: "idle" (no call), "wait" (suspended on the engine call), "ready" (the
\* engine answered, the continuation has not run yet), "done" (promise settled).
\* eng: the engine method awaited.  eres/eval/ekeys: the engine's answer.
\* out/cause/ret/retKeys: how the promise settled.  served: "cache" or "engine".
\* seq: the number of calls made before this one (counted up to MaxStarts).
\* alone: no other call was in progress when this one was made.
\* expired: the call found the key cached but older than ttl and removed it.
Idle ==
  [op |-> "", key |-> "", val |-> "", pc |-> "idle", eng |-> "",
   eres |-> "", eval |-> "", ekeys |-> {},
   out |-> "", cause |-> "", ret |-> "", retKeys |-> {}, served |-> "", seq |-> 0, alone |-> TRUE, expired |-> FALSE]

NewCall(o, k, v) ==
  [Idle EXCEPT !.op = o, !.key = k, !.val = v, !.seq = started,
               !.alone = \A c \in Slots : call[c].pc = "idle"]

\* The call reaches its await: the engine method it awaits.
Await(r, e) == [r EXCEPT !.pc = "wait", !.eng = e, !.served = "engine"]

\* The promise resolves with a value.
Resolve(r, v) == [r EXCEPT !.pc = "done", !.out = "ok", !.ret = v]

\* The promise rejects: new Error(`${msg}: ${error.message}`).
Reject(r, msg, why) == [r EXCEPT !.pc = "done", !.out = msg, !.cause = why]

\* verifyDbOpen() threw: Error('Database is closed'), which has no code.
Closed == "Database is closed"

\* has() probing the key with db.del instead of db.get.
EngineOpOf_HasDeletes(o) ==
  CASE o = "put" -> "put"
    [] o = "get" -> "get"
    [] o = "has" -> "del"
    [] o = "delete" -> "del"
    [] o = "keys" -> "keys"
    [] o = "close" -> "close"

\* The engine method each public method awaits.
EngineOpOf(o) ==
  CASE o = "put" -> "put"
    [] o = "get" -> "get"
    [] o = "has" -> "get"
    [] o = "delete" -> "del"
    [] o = "keys" -> "keys"
    [] o = "close" -> "close"

\* The wrapping message of each method's catch block.
FailureOf(o) ==
  CASE o = "put" -> "Failed to store value"
    [] o = "get" -> "Failed to retrieve value"
    [] o = "has" -> "Failed to check key existence"
    [] o = "delete" -> "Failed to delete value"
    [] o = "keys" -> "Failed to retrieve keys"
    [] o = "close" -> "Failed to close database"

\* A catch block of get that wraps every error alike.
GetError_NoCodeCheck(r, code) == Reject(r, "Failed to retrieve value", code)

\* get's catch block: error.code === 'LEVEL_NOT_FOUND' ? 'Key not found' : wrap.
GetError(r, code) ==
  IF code = "LEVEL_NOT_FOUND"
  THEN Reject(r, "Key not found", code)
  ELSE Reject(r, FailureOf("get"), code)

\* A catch block of has that wraps every error alike.
HasError_NoCodeCheck(r, code) == Reject(r, "Failed to check key existence", code)

\* has's catch block: error.code === 'LEVEL_NOT_FOUND' ? false : wrap.
HasError(r, code) ==
  IF code = "LEVEL_NOT_FOUND"
  THEN Resolve(r, "false")
  ELSE Reject(r, FailureOf("has"), code)

SetCache(cs) ==
  /\ cache' = cs.cache
  /\ cacheTimestamps' = cs.ts
  /\ lruList' = cs.lru

RECURSIVE Restrict(_, _)
\* The sequence s without the keys outside ks.
Restrict(s, ks) ==
  IF s = <<>> THEN <<>>
  ELSE IF Head(s) \in ks THEN <<Head(s)>> \o Restrict(Tail(s), ks)
  ELSE Restrict(Tail(s), ks)

\* History: a put or get call of k is now the most recent one; cs is the cache
\* the step leaves.
Accessed(k, cs) ==
  accessOrder' = Restrict(Append(Restrict(accessOrder, Keys \ {k}), k), CachedKeys(cs))

\* History: no put or get call is made; cs is the cache the step leaves.
NotAccessed(cs) == accessOrder' = Restrict(accessOrder, CachedKeys(cs))

\* ------------------------------------------------------- the constructor
\* A property of the options object: absent (undefined) or given.
Absent == <<>>
Given(x) == <<x>>
OptNum == {Absent} \cup {Given(n) : n \in 0..MaxOption}

\* new HybridStorage(): no options object at all.
NoOptions == [given |-> FALSE, dbPath |-> Absent, cacheSize |-> Absent, ttl |-> Absent]
\* The options of the test suite's beforeEach.
TestOptions ==
  [given |-> TRUE, dbPath |-> Given("test-db"),
   cacheSize |-> Given(CacheSize), ttl |-> Given(Ttl)]
Options ==
  {NoOptions} \cup
  [given : {TRUE}, dbPath : {Absent, Given(""), Given("test-db")},
   cacheSize : OptNum, ttl : OptNum]

\* A test that accepts every dbPath but undefined.
DbPathMissing_OnlyUndefined(o) == ~o.given \/ o.dbPath = Absent
\* !options?.dbPath: no options, no dbPath, or the empty string.
DbPathMissing(o) == ~o.given \/ o.dbPath = Absent \/ o.dbPath = Given("")

\* x || d: undefined and 0 are falsy.
OrDefault(x, d) == IF x = Absent \/ x = Given(0) THEN d ELSE x[1]

\* No constructor has run: no field is assigned, no engine exists.
NotBuilt ==
  [pc |-> "new", error |-> "", dbPath |-> Absent, cacheSize |-> Absent,
   ttl |-> Absent, db |-> FALSE]

\* The constructor, lines 45-66: what it throws or the fields it assigns.
constructor(o) ==
  IF DbPathMissing(o)
  THEN [NotBuilt EXCEPT !.pc = "threw", !.error = "dbPath is required for HybridStorage"]
  ELSE [pc |-> "returned", error |-> "", dbPath |-> o.dbPath,
        cacheSize |-> Given(OrDefault(o.cacheSize, DefaultCacheSize)),
        ttl |-> Given(OrDefault(o.ttl, DefaultTtl)),
        db |-> TRUE]

\* ------------------------------------------------- the relay's state
Conns == 1..MaxConns
\* Peer ids: one number stands for each 32-digit hex string of createPeer.
PeerIds == 1..MaxConns
NoId == 0
\* A registry entry without a WebSocket.
NoWs == 0

\* A WebSocket the server has not seen yet.
NewSocket == [status |-> "new", listeners |-> {}, peer |-> NoId, log |-> <<>>]
\* kind: the event; ws, peer: the WebSocket and the peer id it is about;
\* data: the payload; raised: the handler threw.
NoEvent == [kind |-> "none", ws |-> NoWs, peer |-> NoId, data |-> "", raised |-> FALSE]

\* new PeerRepository(), and no connection yet.
RelayInit ==
  /\ peers = <<>>
  /\ sockets = [c \in Conns |-> NewSocket]
  /\ sent = [c \in Conns |-> <<>>]
  /\ issued = {}
  /\ event = NoEvent

\* The cache structures and histories of a newly constructed instance.
EmptyStorage ==
  /\ cache = [k \in Keys |-> NoVal]
  /\ cacheTimestamps = [k \in Keys |-> NoTs]
  /\ lruList = <<>>
  /\ store = [k \in Keys |-> NoEnc]
  /\ now = 0
  /\ call = [c \in Slots |-> Idle]
  /\ committed = [k \in Keys |-> NoVal]
  /\ deleted = {}
  /\ accessOrder = <<>>
  /\ unsynced = {}
  /\ durable = {}
  /\ started = 0

\* Before new HybridStorage(options) runs, for any options.
InitConstruct ==
  /\ options \in Options
  /\ instance = NotBuilt
  /\ isOpen = FALSE
  /\ dbOpen = FALSE
  /\ EmptyStorage
  /\ RelayInit

\* new HybridStorage(options).
Construct ==
  /\ instance.pc = "new"
  /\ instance' = constructor(options)
  /\ isOpen' = (instance'.pc = "returned")
  /\ dbOpen' = instance'.db
  /\ UNCHANGED <<options, cacheVars, store, now, call, histVars, started, relayVars>>

NextConstruct == Construct

SpecConstruct == InitConstruct /\ [][NextConstruct]_vars

Init ==
  /\ options = TestOptions
  /\ instance = constructor(TestOptions)
  /\ RelayInit
  /\ cache = [k \in Keys |-> NoVal]
  /\ cacheTimestamps = [k \in Keys |-> NoTs]
  /\ lruList = <<>>
  /\ isOpen = TRUE
  /\ store = [k \in Keys |-> NoEnc]
  /\ dbOpen = TRUE
  /\ now = 0
  /\ call = [c \in Slots |-> Idle]
  /\ committed = [k \in Keys |-> NoVal]
  /\ deleted = {}
  /\ accessOrder = <<>>
  /\ unsynced = {}
  /\ durable = {}
  /\ started = 0

\* History: one more call has started.
CountStart == IF started < MaxStarts THEN started + 1 ELSE started

\* ---------------------------------------------- synchronous part of a call
\* put(key, value), lines 118-122.
Put(c, k, v) ==
  /\ call[c].pc = "idle"
  /\ committed' = [committed EXCEPT ![k] = NoVal]
  /\ deleted' = deleted \ {k}
  /\ IF verifyDbOpen
     THEN LET cs == addToCache(CacheState, k, v, now) IN
          /\ SetCache(cs)
          /\ call' = [call EXCEPT ![c] = Await(NewCall("put", k, v), EngineOpOf("put"))]
          /\ Accessed(k, cs)
          /\ unsynced' = unsynced \cap CachedKeys(cs)
     ELSE /\ call' = [call EXCEPT ![c] = Reject(NewCall("put", k, v), FailureOf("put"), Closed)]
          /\ UNCHANGED <<cacheVars, accessOrder, unsynced>>
  /\ UNCHANGED <<isOpen, store, dbOpen, now, durable>>
  /\ UNCHANGED <<ctorVars, relayVars>>
  /\ started' = CountStart

\* get(key), lines 134-161.
Get(c, k) ==
  /\ call[c].pc = "idle"
  /\ IF verifyDbOpen
     THEN /\ IF cache[k] # NoVal /\ Fresh(CacheState, k, now)
             THEN /\ SetCache(Touch(CacheState, k, now))
                  /\ Accessed(k, CacheState)
                  /\ call' = [call EXCEPT ![c] =
                                [Resolve(NewCall("get", k, ""), cache[k]) EXCEPT !.served = "cache"]]
                  /\ UNCHANGED unsynced
             ELSE LET cs == IF cache[k] # NoVal THEN ExpireInGet(CacheState, k) ELSE CacheState IN
                  /\ SetCache(cs)
                  /\ call' = [call EXCEPT ![c] =
                                [Await(NewCall("get", k, ""), EngineOpOf("get"))
                                   EXCEPT !.expired = cache[k] # NoVal]]
                  /\ NotAccessed(cs)
                  /\ unsynced' = unsynced \cap CachedKeys(cs)
     ELSE /\ call' = [call EXCEPT ![c] = GetError(NewCall("get", k, ""), Closed)]
          /\ UNCHANGED <<cacheVars, accessOrder, unsynced>>
  /\ UNCHANGED <<isOpen, store, dbOpen, now, committed, deleted, durable>>
  /\ UNCHANGED <<ctorVars, relayVars>>
  /\ started' = CountStart

\* delete(key), lines 192-205.
Delete(c, k) ==
  /\ call[c].pc = "idle"
  /\ committed' = [committed EXCEPT ![k] = NoVal]
  /\ IF verifyDbOpen
     THEN LET cs == RemoveFromCache(CacheState, k) IN
          /\ SetCache(cs)
          /\ call' = [call EXCEPT ![c] = Await(NewCall("delete", k, ""), EngineOpOf("delete"))]
          /\ NotAccessed(cs)
          /\ unsynced' = unsynced \cap CachedKeys(cs)
     ELSE /\ call' = [call EXCEPT ![c] = Reject(NewCall("delete", k, ""), FailureOf("delete"), Closed)]
          /\ UNCHANGED <<cacheVars, accessOrder, unsynced>>
  /\ UNCHANGED <<isOpen, store, dbOpen, now, deleted, durable>>
  /\ UNCHANGED <<ctorVars, relayVars>>
  /\ started' = CountStart

\* A has that treats a hit as an access, as get does.
Has_Touches(c, k) ==
  /\ call[c].pc = "idle"
  /\ IF verifyDbOpen
     THEN IF cache[k] # NoVal /\ Fresh(CacheState, k, now)
          THEN /\ call' = [call EXCEPT ![c] =
                             [Resolve(NewCall("has", k, ""), "true") EXCEPT !.served = "cache"]]
               /\ SetCache(Touch(CacheState, k, now))
               /\ UNCHANGED <<accessOrder, unsynced>>
          ELSE LET cs == IF cache[k] # NoVal THEN ExpireInHas(CacheState, k) ELSE CacheState IN
               /\ SetCache(cs)
               /\ call' = [call EXCEPT ![c] =
                             [Await(NewCall("has", k, ""), EngineOpOf("has"))
                                EXCEPT !.expired = cache[k] # NoVal]]
               /\ NotAccessed(cs)
               /\ unsynced' = unsynced \cap CachedKeys(cs)
     ELSE /\ call' = [call EXCEPT ![c] = HasError(NewCall("has", k, ""), Closed)]
          /\ UNCHANGED <<cacheVars, accessOrder, unsynced>>
  /\ UNCHANGED <<isOpen, store, dbOpen, now, committed, deleted, durable>>
  /\ UNCHANGED <<ctorVars, relayVars>>
  /\ started' = CountStart

\* has(key), lines 216-236.
Has(c, k) ==
  /\ call[c].pc = "idle"
  /\ IF verifyDbOpen
     THEN IF cache[k] # NoVal /\ Fresh(CacheState, k, now)
          THEN /\ call' = [call EXCEPT ![c] =
                             [Resolve(NewCall("has", k, ""), "true") EXCEPT !.served = "cache"]]
               /\ UNCHANGED <<cacheVars, accessOrder, unsynced>>
          ELSE LET cs == IF cache[k] # NoVal THEN ExpireInHas(CacheState, k) ELSE CacheState IN
               /\ SetCache(cs)
               /\ call' = [call EXCEPT ![c] =
                             [Await(NewCall("has", k, ""), EngineOpOf("has"))
                                EXCEPT !.expired = cache[k] # NoVal]]
               /\ NotAccessed(cs)
               /\ unsynced' = unsynced \cap CachedKeys(cs)
     ELSE /\ call' = [call EXCEPT ![c] = HasError(NewCall("has", k, ""), Closed)]
          /\ UNCHANGED <<cacheVars, accessOrder, unsynced>>
  /\ UNCHANGED <<isOpen, store, dbOpen, now, committed, deleted, durable>>
  /\ UNCHANGED <<ctorVars, relayVars>>
  /\ started' = CountStart

\* keys(), lines 250-255.
KeysCall(c) ==
  /\ call[c].pc = "idle"
  /\ IF verifyDbOpen
     THEN call' = [call EXCEPT ![c] = Await(NewCall("keys", "", ""), EngineOpOf("keys"))]
     ELSE call' = [call EXCEPT ![c] = Reject(NewCall("keys", "", ""), FailureOf("keys"), Closed)]
  /\ UNCHANGED <<cacheVars, isOpen, store, dbOpen, now, histVars>>
  /\ UNCHANGED <<ctorVars, relayVars>>
  /\ started' = CountStart

\* A close() that closes the engine whatever isOpen says.
CloseNeeded_Always == TRUE
\* if (this.isOpen) of close().
CloseNeeded == isOpen

\* close(), lines 268-271.
Close(c) ==
  /\ call[c].pc = "idle"
  /\ IF CloseNeeded
     THEN call' = [call EXCEPT ![c] = Await(NewCall("close", "", ""), EngineOpOf("close"))]
     ELSE call' = [call EXCEPT ![c] = Resolve(NewCall("close", "", ""), "")]
  /\ UNCHANGED <<cacheVars, isOpen, store, dbOpen, now, histVars>>
  /\ UNCHANGED <<ctorVars, relayVars>>
  /\ started' = CountStart

\* ------------------------------------------------------------- the engine
\* An answer of the engine: what the awaited promise settles with and the
\* database it leaves.  Every method may fail with an I/O error; a failed
\* method leaves the database as it was.
Answer(res, v, ks, st, open) ==
  [eres |-> res, eval |-> v, ekeys |-> ks, store |-> st, dbOpen |-> open]

DbFail(code) == Answer(code, "", {}, store, dbOpen)

StoreKeys == {k \in Keys : store[k] # NoEnc}

\* An engine whose put keeps the value a key already has.
DbAnswers_FirstWriteWins(e, k, v) ==
  IF ~dbOpen
  THEN IF e = "close" THEN {Answer("ok", "", {}, store, dbOpen)}
       ELSE {DbFail("LEVEL_DATABASE_NOT_OPEN")}
  ELSE {DbFail("EIO")} \cup
       CASE e = "put" ->
              {Answer("ok", "", {},
                      IF store[k] = NoEnc THEN [store EXCEPT ![k] = Encode(v)] ELSE store,
                      dbOpen)}
         [] e = "get" ->
              IF store[k] # NoEnc
              THEN {Answer("ok", Decode(store[k]), {}, store, dbOpen)}
              ELSE {DbFail("LEVEL_NOT_FOUND")}
         [] e = "del" ->
              {Answer("ok", "", {}, [store EXCEPT ![k] = NoEnc], dbOpen)}
         [] e = "keys" ->
              {Answer("ok", "", StoreKeys, store, dbOpen)}
         [] e = "close" ->
              {Answer("ok", "", {}, store, FALSE)}

\* An engine that still answers reads after it was closed.
DbAnswers_ReadsWhenClosed(e, k, v) ==
  IF ~dbOpen /\ e # "get"
  THEN IF e = "close" THEN {Answer("ok", "", {}, store, dbOpen)}
       ELSE {DbFail("LEVEL_DATABASE_NOT_OPEN")}
  ELSE {DbFail("EIO")} \cup
       CASE e = "put" ->
              {Answer("ok", "", {}, [store EXCEPT ![k] = Encode(v)], dbOpen)}
         [] e = "get" ->
              IF store[k] # NoEnc
              THEN {Answer("ok", Decode(store[k]), {}, store, dbOpen)}
              ELSE {DbFail("LEVEL_NOT_FOUND")}
         [] e = "del" ->
              {Answer("ok", "", {}, [store EXCEPT ![k] = NoEnc], dbOpen)}
         [] e = "keys" ->
              {Answer("ok", "", StoreKeys, store, dbOpen)}
         [] e = "close" ->
              {Answer("ok", "", {}, store, FALSE)}

DbAnswers(e, k, v) ==
  IF ~dbOpen
  THEN IF e = "close" THEN {Answer("ok", "", {}, store, dbOpen)}
       ELSE {DbFail("LEVEL_DATABASE_NOT_OPEN")}
  ELSE {DbFail("EIO")} \cup
       CASE e = "put" ->
              {Answer("ok", "", {}, [store EXCEPT ![k] = Encode(v)], dbOpen)}
         [] e = "get" ->
              IF store[k] # NoEnc
              THEN {Answer("ok", Decode(store[k]), {}, store, dbOpen)}
              ELSE {DbFail("LEVEL_NOT_FOUND")}
         [] e = "del" ->
              {Answer("ok", "", {}, [store EXCEPT ![k] = NoEnc], dbOpen)}
         [] e = "keys" ->
              {Answer("ok", "", StoreKeys, store, dbOpen)}
         [] e = "close" ->
              {Answer("ok", "", {}, store, FALSE)}

\* The engine performs the awaited method.
DbStep(c) ==
  /\ call[c].pc = "wait"
  /\ \E a \in DbAnswers(call[c].eng, call[c].key, call[c].val) :
       /\ store' = a.store
       /\ dbOpen' = a.dbOpen
       /\ call' = [call EXCEPT ![c] = [@ EXCEPT !.pc = "ready", !.eres = a.eres,
                                                !.eval = a.eval, !.ekeys = a.ekeys]]
  /\ UNCHANGED <<cacheVars, isOpen, now, histVars>>
  /\ UNCHANGED <<ctorVars, relayVars, started>>

\* ------------------------------------------------ continuation after await
Ready(c, o) == call[c].pc = "ready" /\ call[c].op = o

\* A put that issues the engine write again when it failed.
PutResume_Retries(c) ==
  /\ Ready(c, "put")
  /\ IF call[c].eres = "ok"
     THEN /\ call' = [call EXCEPT ![c] = Resolve(@, "")]
          /\ committed' = [committed EXCEPT ![call[c].key] = call[c].val]
          /\ unsynced' = unsynced \ {call[c].key}
          /\ durable' = durable \cup {call[c].key}
     ELSE /\ call' = [call EXCEPT ![c] = [@ EXCEPT !.pc = "wait", !.eres = ""]]
          /\ UNCHANGED <<committed, unsynced, durable>>
  /\ UNCHANGED <<cacheVars, isOpen, store, dbOpen, now, deleted, accessOrder>>
  /\ UNCHANGED <<ctorVars, relayVars, started>>

\* put, lines 122-125.
PutResume(c) ==
  /\ Ready(c, "put")
  /\ IF call[c].eres = "ok"
     THEN /\ call' = [call EXCEPT ![c] = Resolve(@, "")]
          /\ committed' = [committed EXCEPT ![call[c].key] = call[c].val]
          /\ unsynced' = unsynced \ {call[c].key}
          /\ durable' = durable \cup {call[c].key}
     ELSE /\ call' = [call EXCEPT ![c] = Reject(@, FailureOf("put"), call[c].eres)]
          /\ unsynced' = unsynced \cup ({call[c].key} \cap CachedKeys(CacheState))
          /\ UNCHANGED <<committed, durable>>
  /\ UNCHANGED <<cacheVars, isOpen, store, dbOpen, now, deleted, accessOrder>>
  /\ UNCHANGED <<ctorVars, relayVars, started>>

\* A get that makes room in a full cache before it looks at the engine's answer.
GetResume_EvictsFirst(c) ==
  /\ Ready(c, "get")
  /\ IF call[c].eres = "ok"
     THEN LET cs == GetAdmit(CacheState, call[c].key, call[c].eval, now) IN
          /\ SetCache(cs)
          /\ call' = [call EXCEPT ![c] = Resolve(@, call[c].eval)]
          /\ Accessed(call[c].key, cs)
          /\ unsynced' = (unsynced \ {call[c].key}) \cap CachedKeys(cs)
     ELSE LET cs == IF CacheCount(CacheState) >= CacheSize
                    THEN EvictLru(CacheState) ELSE CacheState IN
          /\ SetCache(cs)
          /\ call' = [call EXCEPT ![c] = GetError(@, call[c].eres)]
          /\ NotAccessed(cs)
          /\ unsynced' = unsynced \cap CachedKeys(cs)
  /\ UNCHANGED <<isOpen, store, dbOpen, now, committed, deleted, durable>>
  /\ UNCHANGED <<ctorVars, relayVars, started>>

\* get, lines 161-184.
GetResume(c) ==
  /\ Ready(c, "get")
  /\ IF call[c].eres = "ok"
     THEN LET cs == GetAdmit(CacheState, call[c].key, call[c].eval, now) IN
          /\ SetCache(cs)
          /\ call' = [call EXCEPT ![c] = Resolve(@, call[c].eval)]
          /\ Accessed(call[c].key, cs)
          /\ unsynced' = (unsynced \ {call[c].key}) \cap CachedKeys(cs)
     ELSE /\ call' = [call EXCEPT ![c] = GetError(@, call[c].eres)]
          /\ UNCHANGED <<cacheVars, accessOrder, unsynced>>
  /\ UNCHANGED <<isOpen, store, dbOpen, now, committed, deleted, durable>>
  /\ UNCHANGED <<ctorVars, relayVars, started>>

\* A delete that swallows the error of the engine.
DeleteResume_Resolves(c) ==
  /\ Ready(c, "delete")
  /\ IF call[c].eres = "ok"
     THEN /\ call' = [call EXCEPT ![c] = Resolve(@, "")]
          /\ deleted' = deleted \cup {call[c].key}
          /\ durable' = durable \ {call[c].key}
     ELSE /\ call' = [call EXCEPT ![c] = Resolve(@, "")]
          /\ UNCHANGED <<deleted, durable>>
  /\ UNCHANGED <<cacheVars, isOpen, store, dbOpen, now, committed, accessOrder, unsynced>>
  /\ UNCHANGED <<ctorVars, relayVars, started>>

\* delete, lines 205-208.
DeleteResume(c) ==
  /\ Ready(c, "delete")
  /\ IF call[c].eres = "ok"
     THEN /\ call' = [call EXCEPT ![c] = Resolve(@, "")]
          /\ deleted' = deleted \cup {call[c].key}
          /\ durable' = durable \ {call[c].key}
     ELSE /\ call' = [call EXCEPT ![c] = Reject(@, FailureOf("delete"), call[c].eres)]
          /\ UNCHANGED <<deleted, durable>>
  /\ UNCHANGED <<cacheVars, isOpen, store, dbOpen, now, committed, accessOrder, unsynced>>
  /\ UNCHANGED <<ctorVars, relayVars, started>>

\* has, lines 236-243.
HasResume(c) ==
  /\ Ready(c, "has")
  /\ IF call[c].eres = "ok"
     THEN call' = [call EXCEPT ![c] = Resolve(@, "true")]
     ELSE call' = [call EXCEPT ![c] = HasError(@, call[c].eres)]
  /\ UNCHANGED <<cacheVars, isOpen, store, dbOpen, now, histVars>>
  /\ UNCHANGED <<ctorVars, relayVars, started>>

\* A keys() that adds the cached keys to the engine's.
KeysResume_WithCache(c) ==
  /\ call[c].pc = "ready" /\ call[c].op = "keys"
  /\ IF call[c].eres = "ok"
     THEN call' = [call EXCEPT ![c] =
                     [Resolve(@, "") EXCEPT !.retKeys = call[c].ekeys \cup CachedKeys(CacheState)]]
     ELSE call' = [call EXCEPT ![c] = Reject(@, FailureOf("keys"), call[c].eres)]
  /\ UNCHANGED <<cacheVars, isOpen, store, dbOpen, now, histVars>>
  /\ UNCHANGED <<ctorVars, relayVars, started>>

\* keys, lines 255-261.
KeysResume(c) ==
  /\ Ready(c, "keys")
  /\ IF call[c].eres = "ok"
     THEN call' = [call EXCEPT ![c] = [Resolve(@, "") EXCEPT !.retKeys = call[c].ekeys]]
     ELSE call' = [call EXCEPT ![c] = Reject(@, FailureOf("keys"), call[c].eres)]
  /\ UNCHANGED <<cacheVars, isOpen, store, dbOpen, now, histVars>>
  /\ UNCHANGED <<ctorVars, relayVars, started>>

\* A close that marks the instance closed and clears the cache although the
\* engine failed to close.
CloseResume_ClosesAnyway(c) ==
  /\ Ready(c, "close")
  /\ isOpen' = FALSE
  /\ SetCache(Cleared)
  /\ unsynced' = {}
  /\ accessOrder' = <<>>
  /\ IF call[c].eres = "ok"
     THEN call' = [call EXCEPT ![c] = Resolve(@, "")]
     ELSE call' = [call EXCEPT ![c] = Reject(@, FailureOf("close"), call[c].eres)]
  /\ UNCHANGED <<store, dbOpen, now, committed, deleted, durable>>
  /\ UNCHANGED <<ctorVars, relayVars, started>>

\* close, lines 271-279.
CloseResume(c) ==
  /\ Ready(c, "close")
  /\ IF call[c].eres = "ok"
     THEN /\ isOpen' = FALSE
          /\ SetCache(Cleared)
          /\ unsynced' = {}
          /\ accessOrder' = <<>>
          /\ call' = [call EXCEPT ![c] = Resolve(@, "")]
     ELSE /\ call' = [call EXCEPT ![c] = Reject(@, FailureOf("close"), call[c].eres)]
          /\ UNCHANGED <<cacheVars, isOpen, accessOrder, unsynced>>
  /\ UNCHANGED <<store, dbOpen, now, committed, deleted, durable>>
  /\ UNCHANGED <<ctorVars, relayVars, started>>

\* The caller has seen the settled promise; the slot is free for the next call.
Return(c) ==
  /\ call[c].pc = "done"
  /\ call' = [call EXCEPT ![c] = Idle]
  /\ UNCHANGED <<cacheVars, isOpen, store, dbOpen, now, histVars>>
  /\ UNCHANGED <<ctorVars, relayVars, started>>

\* Time passes.
Tick ==
  /\ now < MaxTime
  /\ now' = now + 1
  /\ UNCHANGED <<cacheVars, isOpen, store, dbOpen, call, histVars>>
  /\ UNCHANGED <<ctorVars, relayVars, started>>

Step(c) ==
  \/ \E k \in Keys : \E v \in ValuesOf(k) : Put(c, k, v)
  \/ \E k \in Keys : Get(c, k)
  \/ \E k \in Keys : Delete(c, k)
  \/ \E k \in Keys : Has(c, k)
  \/ KeysCall(c)
  \/ Close(c)
  \/ DbStep(c)
  \/ PutResume(c)
  \/ GetResume(c)
  \/ DeleteResume(c)
  \/ HasResume(c)
  \/ KeysResume(c)
  \/ CloseResume(c)
  \/ Return(c)

\* Calls that do not overlap: each call completes before the next starts.
Next == Step(1) \/ Tick

Spec == Init /\ [][Next]_vars

\* Calls that overlap at their engine suspension points.  The continuation
\* of an await is a microtask queued when the engine settles its promise: it
\* runs before any other call starts, before the engine settles another
\* promise and before the clock is read again.
NoneReady == \A c \in Slots : call[c].pc # "ready"
\* Slots are names only: a new call takes the lowest free slot.
LowestFree(c) == call[c].pc = "idle" /\ \A d \in 1..(c - 1) : call[d].pc # "idle"
CanStart(c) == NoneReady /\ LowestFree(c) /\ started < MaxStarts

NextOverlap ==
  \/ \E c \in Slots : \E k \in Keys : \E v \in ValuesOf(k) : CanStart(c) /\ Put(c, k, v)
  \/ \E c \in Slots : \E k \in Keys : CanStart(c) /\ Get(c, k)
  \/ \E c \in Slots : \E k \in Keys : CanStart(c) /\ Delete(c, k)
  \/ \E c \in Slots : \E k \in Keys : CanStart(c) /\ Has(c, k)
  \/ \E c \in Slots : CanStart(c) /\ KeysCall(c)
  \/ \E c \in Slots : CanStart(c) /\ Close(c)
  \/ \E c \in Slots : NoneReady /\ DbStep(c)
  \/ \E c \in Slots : PutResume(c)
  \/ \E c \in Slots : GetResume(c)
  \/ \E c \in Slots : DeleteResume(c)
  \/ \E c \in Slots : HasResume(c)
  \/ \E c \in Slots : KeysResume(c)
  \/ \E c \in Slots : CloseResume(c)
  \/ \E c \in Slots : NoneReady /\ Return(c)
  \/ NoneReady /\ Tick

SpecOverlap == Init /\ [][NextOverlap]_vars

\* ================================================================ relay
\* The relay server (src/server/wss.js): every accepted WebSocket gets a
\* PeerConnection, which registers a peer in the PeerRepository, sends it the
\* peer list and relays its messages through the MessageService.  Each event
\* handler runs to completion (none of them awaits).

\* The payloads a client sends: plain text and JSON text.
JsonTexts == {"{\"a\":1}"}
Data == {"hello"} \cup JsonTexts

\* data.toString(), kept as text.
Text(d) == <<"string", d>>
\* JSON.parse of a JSON text: the value, not the text.
JsonParse(d) == <<"value", d>>
\* JSON.stringify: the text sent on the wire.
Stringify(m) == <<"json", m>>

\* No ws.send call yet in the event being handled.
NoCalls == [c \in Conns |-> <<>>]

\* createPeer(), lines 44-50, with the id that randomBytes produced.
createPeer(id, t) == [id |-> id, connectionCreated |-> t, lastActive |-> t]

\* { ws: this.ws, ...this.peer }
WithWs(ws, peer) ==
  [ws |-> ws, id |-> peer.id,
   connectionCreated |-> peer.connectionCreated, lastActive |-> peer.lastActive]

\* The position of the entry of id in the registry, 0 if none.
EntryOf(ps, id) ==
  IF \E i \in 1..Len(ps) : ps[i].id = id
  THEN CHOOSE i \in 1..Len(ps) : ps[i].id = id
  ELSE 0

\* add(id, peer): this.peers[id] = { ...peer }; an existing key keeps its place.
add(ps, id, peer) ==
  IF EntryOf(ps, id) > 0 THEN [ps EXCEPT ![EntryOf(ps, id)] = peer]
  ELSE Append(ps, peer)

\* A remove that deletes nothing.
remove_Nothing(ps, id) == ps
\* remove(id): delete this.peers[id].
remove(ps, id) == SelectSeq(ps, LAMBDA p : p.id # id)

\* getAll(): copies of all entries, each with its WebSocket.
getAll(ps) == [i \in 1..Len(ps) |-> WithWs(ps[i].ws, ps[i])]

\* getAllSerializable(): copies of all entries without the ws property.
getAllSerializable(ps) ==
  [i \in 1..Len(ps) |->
     [id |-> ps[i].id, connectionCreated |-> ps[i].connectionCreated,
      lastActive |-> ps[i].lastActive]]

\* ws.send(data) on WebSocket c: the call is made; it throws when c is one of
\* the sockets that fail during this event.
WsSend(snt, c, data, fails) ==
  [snt EXCEPT ![c] = Append(@, [data |-> data, threw |-> c \in fails])]

\* A send without the try/catch (src/message/messageService.js).
send_NoCatch(snt, c, message, fails) ==
  [sent |-> WsSend(snt, c, Stringify(message), fails), raised |-> c \in fails]
\* MessageService.send, lines 23-30: the error is logged, not thrown.
send(snt, c, message, fails) ==
  [sent |-> WsSend(snt, c, Stringify(message), fails), raised |-> FALSE]

RECURSIVE forEach_NoCatch(_, _, _, _, _)
\* A forEach body without the try/catch: the first error ends the loop.
forEach_NoCatch(ps, i, str, snt, fails) ==
  IF i > Len(ps) THEN [sent |-> snt, raised |-> FALSE]
  ELSE IF ps[i].ws = NoWs THEN [sent |-> snt, raised |-> TRUE]
  ELSE IF ps[i].ws \in fails
       THEN [sent |-> WsSend(snt, ps[i].ws, str, fails), raised |-> TRUE]
  ELSE forEach_NoCatch(ps, i + 1, str, WsSend(snt, ps[i].ws, str, fails), fails)

RECURSIVE forEach(_, _, _, _, _)
\* peers.forEach of broadcast, lines 46-56, from the peer at position i on.
forEach(ps, i, str, snt, fails) ==
  IF i > Len(ps) THEN [sent |-> snt, raised |-> FALSE]
  ELSE IF ps[i].ws = NoWs THEN forEach(ps, i + 1, str, snt, fails)
  ELSE forEach(ps, i + 1, str, WsSend(snt, ps[i].ws, str, fails), fails)

\* MessageService.broadcast, lines 43-57.
broadcast(ps, message, snt, fails) == forEach(ps, 1, Stringify(message), snt, fails)

\* A handleMessage that relays to the other peers only.
handleMessage_NotToSender(ps, id, content, snt, fails) ==
  broadcast(SelectSeq(getAll(ps), LAMBDA p : p.id # id),
            [type |-> "message", peer |-> id, content |-> content], snt, fails)

\* PeerConnection.handleMessage, lines 60-67.
handleMessage(ps, id, content, snt, fails) ==
  broadcast(getAll(ps), [type |-> "message", peer |-> id, content |-> content],
            snt, fails)

\* The 'message' listener, lines 82-91: the catch also covers handleMessage.
onMessage(ps, id, d, fails) ==
  IF d \in JsonTexts
  THEN LET r == handleMessage(ps, id, JsonParse(d), NoCalls, fails) IN
       IF r.raised THEN handleMessage(ps, id, Text(d), r.sent, fails) ELSE r
  ELSE handleMessage(ps, id, Text(d), NoCalls, fails)

\* The run of the PeerConnection constructor on WebSocket c: the registry,
\* the ws.send calls, the listeners of c, the calls made in their order, and
\* whether an error has been thrown (which ends the run).
NewRun == [peers |-> peers, sent |-> NoCalls, listeners |-> {}, log |-> <<>>,
           raised |-> FALSE]

\* initialize, lines 35-38.
addSelf(st, c, peer) ==
  IF st.raised THEN st
  ELSE [st EXCEPT !.peers = add(@, peer.id, WithWs(c, peer)),
                  !.log = Append(@, "add")]

\* sendInitialPeers, lines 47-53.
sendInitialPeers(st, c, fails) ==
  IF st.raised THEN st
  ELSE LET r == send(st.sent, c,
                     [type |-> "all-peers", peers |-> getAllSerializable(st.peers)],
                     fails)
       IN [st EXCEPT !.sent = r.sent, !.raised = r.raised,
                     !.log = Append(@, "send")]

\* setupEventListeners, lines 81-96.
setupEventListeners(st, c) ==
  IF st.raised THEN st
  ELSE [st EXCEPT !.listeners = @ \cup {"message", "close"},
                  !.log = @ \o <<"on:message", "on:close">>]

\* An initialize that sends the list before it registers the peer.
initialize_SendsFirst(st, c, peer, fails) ==
  setupEventListeners(addSelf(sendInitialPeers(st, c, fails), c, peer), c)
\* initialize, lines 34-41.
initialize(st, c, peer, fails) ==
  setupEventListeners(sendInitialPeers(addSelf(st, c, peer), c, fails), c)

\* wss 'connection': new PeerConnection(ws, peerRepository, messageService).
\* The id is one randomBytes has not produced before.
Connection(c) ==
  /\ sockets[c].status = "new"
  /\ \E id \in PeerIds \ issued : \E fails \in SUBSET {c} :
       LET st == initialize(NewRun, c, createPeer(id, now), fails) IN
       /\ peers' = st.peers
       /\ sent' = st.sent
       /\ issued' = issued \cup {id}
       /\ sockets' = [sockets EXCEPT ![c] =
                        [status |-> "open", listeners |-> st.listeners,
                         peer |-> id, log |-> st.log]]
       /\ event' = [kind |-> "connection", ws |-> c, peer |-> id, data |-> "",
                    raised |-> st.raised]
  /\ UNCHANGED <<storageVars, ctorVars>>

\* ws 'message' on an open WebSocket.
MessageEvent(c) ==
  /\ sockets[c].status = "open"
  /\ "message" \in sockets[c].listeners
  /\ \E d \in Data : \E fails \in SUBSET Conns :
       LET r == onMessage(peers, sockets[c].peer, d, fails) IN
       /\ sent' = r.sent
       /\ event' = [kind |-> "message", ws |-> c, peer |-> sockets[c].peer, data |-> d,
                    raised |-> r.raised]
  /\ UNCHANGED <<peers, sockets, issued, storageVars, ctorVars>>

\* ws 'close': handleClose, lines 73-75.  The listener stays registered, so
\* the event may be delivered again.
CloseEvent(c) ==
  /\ sockets[c].status \in {"open", "closed"}
  /\ "close" \in sockets[c].listeners
  /\ peers' = remove(peers, sockets[c].peer)
  /\ sockets' = [sockets EXCEPT ![c].status = "closed"]
  /\ sent' = NoCalls
  /\ event' = [kind |-> "close", ws |-> c, peer |-> sockets[c].peer, data |-> "",
               raised |-> FALSE]
  /\ UNCHANGED <<issued, storageVars, ctorVars>>

NextRelay ==
  \/ \E c \in Conns : Connection(c)
  \/ \E c \in Conns : MessageEvent(c)
  \/ \E c \in Conns : CloseEvent(c)

SpecRelay == Init /\ [][NextRelay]_vars

\* ------------------------------------------- broadcast on any list of peers
\* The lists broadcast may be given: up to MaxConns peers, the peer at
\* position i with id i, each with a WebSocket of its own or with none.
PeerLists ==
  UNION {
    {[i \in 1..n |-> WithWs(w[i], createPeer(i, 0))] :
       w \in {f \in [1..n -> Conns \cup {NoWs}] :
                \A i, j \in 1..n : (i # j /\ f[i] # NoWs) => f[i] # f[j]}}
    : n \in 0..MaxConns}

\* A MessageService and the list of peers its caller holds.
InitBroadcast ==
  /\ options = TestOptions
  /\ instance = constructor(TestOptions)
  /\ isOpen = TRUE
  /\ dbOpen = TRUE
  /\ EmptyStorage
  /\ peers \in PeerLists
  /\ sockets = [c \in Conns |-> NewSocket]
  /\ sent = NoCalls
  /\ issued = {}
  /\ event = NoEvent

\* messageService.broadcast(peers, message).
Broadcast ==
  /\ \E id \in PeerIds : \E d \in Data : \E fails \in SUBSET Conns :
       LET r == broadcast(peers, [type |-> "message", peer |-> id, content |-> Text(d)],
                          NoCalls, fails) IN
       /\ sent' = r.sent
       /\ event' = [kind |-> "broadcast", ws |-> NoWs, peer |-> id, data |-> d,
                    raised |-> r.raised]
  /\ UNCHANGED <<peers, sockets, issued, storageVars, ctorVars>>

NextBroadcast == Broadcast

SpecBroadcast == InitBroadcast /\ [][NextBroadcast]_vars

\* ================================================================ claims
\* The call of slot 1 has completed (its promise has settled).
Done(o) == call[1].pc = "done" /\ call[1].op = o
\* No call is between its start and its completion.
Quiet == call[1].pc \in {"idle", "done"}
\* An engine read that failed for another reason than not-found.
IoFailed(r) == r.eres \notin {"", "ok", "LEVEL_NOT_FOUND"}

\* C1: after each call of a sequence of non-overlapping calls, whatever the
\* engine answered, the cache holds at most cacheSize entries.
C1_CapacityAfterEachCall == Quiet => CacheCount(CacheState) <= CacheSize

\* C2 as stated: from a successful put(k, v) to the next put(k) or delete(k),
\* every get(k) returns v.
C2_EveryGetReturnsPut ==
  (Done("get") /\ committed[call[1].key] # NoVal)
    => (call[1].out = "ok" /\ call[1].ret = committed[call[1].key])

\* C2 as amended: from a successful put(k, v) to the next put(k) or delete(k),
\* every get(k) on the open instance whose engine read does not fail returns v;
\* a get(k) that does not return v fails with 'Failed to retrieve value' (the
\* instance is closed or the engine read failed), never with not-found and
\* never with another value.
C2_GetReturnsPutUnlessFailed ==
  (Done("get") /\ committed[call[1].key] # NoVal)
    => /\ (isOpen /\ ~IoFailed(call[1]))
            => (call[1].out = "ok" /\ call[1].ret = committed[call[1].key])
       /\ call[1].out # "ok"
            => (call[1].out = "Failed to retrieve value"
                /\ (~isOpen \/ IoFailed(call[1])))

\* C2 witness: a get served by the engine (the entry had left the cache)
\* returns the updated value of the last successful put.
C2_Witness ==
  /\ Done("get") /\ call[1].served = "engine"
  /\ committed[call[1].key] = "v2"
  /\ call[1].out = "ok" /\ call[1].ret = "v2"

\* A step admits key k, absent from the cache, into a cache holding cacheSize
\* entries.
AdmitsIntoFull(k) ==
  /\ CacheCount(CacheState) = CacheSize
  /\ cache[k] = NoVal
  /\ cache'[k] # NoVal

\* C3: when a key not in the cache is admitted into a full cache, exactly one
\* entry is evicted, the cached key whose most recent put or get is the oldest.
C3_LruVictim ==
  [][\A k \in Keys :
       AdmitsIntoFull(k)
         => /\ accessOrder # <<>>
            /\ cache'[Head(accessOrder)] = NoVal
            /\ \A j \in Keys \ {k, Head(accessOrder)} : cache'[j] = cache[j]]_vars

\* C4 as stated: from a successful delete(k) to the next put(k), k is absent
\* from cache, timestamps and recency order, every get(k) fails with
\* 'Key not found' and every has(k) returns false.
C4_DeletedStaysNotFound ==
  /\ \A k \in deleted :
       cache[k] = NoVal /\ cacheTimestamps[k] = NoTs /\ IndexOf(lruList, k, 1) = 0
  /\ (Done("get") /\ call[1].key \in deleted) => call[1].out = "Key not found"
  /\ (Done("has") /\ call[1].key \in deleted)
       => (call[1].out = "ok" /\ call[1].ret = "false")

\* C4 as amended: from a successful delete(k) to the next put(k), k is absent
\* from cache, timestamps and recency order, no get(k) returns a value and no
\* has(k) returns true; on the open instance a get(k) whose engine read does
\* not fail fails with 'Key not found' and such a has(k) returns false.
C4_DeletedNeverFound ==
  /\ \A k \in deleted :
       cache[k] = NoVal /\ cacheTimestamps[k] = NoTs /\ IndexOf(lruList, k, 1) = 0
  /\ (Done("get") /\ call[1].key \in deleted)
       => /\ call[1].out # "ok"
          /\ (isOpen /\ ~IoFailed(call[1])) => call[1].out = "Key not found"
  /\ (Done("has") /\ call[1].key \in deleted)
       => /\ ~(call[1].out = "ok" /\ call[1].ret = "true")
          /\ (isOpen /\ ~IoFailed(call[1]))
               => (call[1].out = "ok" /\ call[1].ret = "false")

\* C4 witness: a get of a deleted key has failed with 'Key not found'.
C4_Witness ==
  /\ Done("get") /\ call[1].key \in deleted
  /\ call[1].out = "Key not found"

\* C5: once close() has succeeded the instance stays closed, every later put,
\* get, delete, has and keys fails, and no step calls the engine or changes
\* the cache.
C5_ClosedFailsFast ==
  /\ [](~isOpen /\ call[1].pc = "done" /\ call[1].op # "close"
          => call[1].out # "ok" /\ call[1].served = "")
  /\ [][~isOpen
          => /\ isOpen' = isOpen
             /\ cacheVars' = cacheVars
             /\ store' = store /\ dbOpen' = dbOpen
             /\ call'[1].pc \in {"idle", "done"}]_vars

\* C5 witness: a get on the closed instance has failed.
C5_Witness ==
  /\ ~isOpen /\ Done("get")
  /\ call[1].out = "Failed to retrieve value" /\ call[1].cause = Closed

\* C6: close() on a closed instance succeeds at once, calls no engine method
\* and changes nothing.
C6_CloseIdempotent ==
  [][(~isOpen /\ call[1].pc = "idle" /\ call'[1].op = "close")
       => /\ call'[1].pc = "done" /\ call'[1].out = "ok"
          /\ UNCHANGED <<cacheVars, isOpen, store, dbOpen>>]_vars

\* C6 witness: a second close() has returned without an engine call.
C6_Witness ==
  ~isOpen /\ Done("close") /\ call[1].out = "ok" /\ call[1].served = ""

\* A put of key k is between its cache admission and its completion.
PutPending(k) ==
  call[1].op = "put" /\ call[1].key = k /\ call[1].pc \in {"wait", "ready"}

\* C7 as stated (weakened to the states between calls): every cached key is in
\* the persistent store with the same value.
C7_CacheImpliesDurable ==
  Quiet => \A k \in CachedKeys(CacheState) : store[k] = Encode(cache[k])

\* C7 as amended: every cached key is in the persistent store with the same
\* value, unless its entry was written by a put whose engine write is pending
\* or has failed; a key for which has() returns true or get() returns a value
\* is a key of the store, with the same exception.
C7_CacheImpliesDurableUnlessWriteFailed ==
  /\ \A k \in CachedKeys(CacheState) :
       k \in unsynced \/ PutPending(k) \/ store[k] = Encode(cache[k])
  /\ ((Done("get") /\ call[1].out = "ok") \/
      (Done("has") /\ call[1].out = "ok" /\ call[1].ret = "true"))
       => (call[1].key \in StoreKeys \/ call[1].key \in unsynced)

\* C7 witness: after puts that all succeeded the cache is full and agrees with
\* the store, one key cached with its second value.
C7_Witness ==
  /\ Quiet /\ unsynced = {}
  /\ CacheCount(CacheState) = CacheSize
  /\ cache["k1"] = "v2" /\ store["k1"] = Encode("v2")

\* C8 as stated: keys() on the open instance returns exactly the keys of the
\* persistent store.
C8_KeysReturnsStoreKeys ==
  (Done("keys") /\ isOpen) => (call[1].out = "ok" /\ call[1].retKeys = StoreKeys)

\* C8 as amended: keys() on the open instance returns exactly the keys of the
\* persistent store when the engine's enumeration succeeds and fails with
\* 'Failed to retrieve keys' when it does not; in both cases it leaves cache,
\* timestamps and recency order unchanged.
C8_KeysFromStoreOnly ==
  /\ []((Done("keys") /\ isOpen)
          => IF call[1].eres = "ok"
             THEN call[1].out = "ok" /\ call[1].retKeys = StoreKeys
             ELSE call[1].out = "Failed to retrieve keys")
  /\ [][(call[1].op = "keys" \/ call'[1].op = "keys")
          => cacheVars' = cacheVars]_vars

\* C8 witness: keys() has returned a key that is not cached and has left out
\* a key that is cached only.
C8_Witness ==
  /\ Done("keys") /\ call[1].out = "ok"
  /\ \E k \in call[1].retKeys : cache[k] = NoVal
  /\ \E k \in CachedKeys(CacheState) : k \notin call[1].retKeys

\* C9: the persistent store changes only by the engine write of a put and the
\* engine delete of a delete.
C9_OnlyPutAndDeleteWrite ==
  [][store' # store
       => /\ call[1].pc = "wait" /\ call'[1].pc = "ready"
          /\ \/ /\ call[1].op = "put"
                /\ store' = [store EXCEPT ![call[1].key] = Encode(call[1].val)]
             \/ /\ call[1].op = "delete"
                /\ store' = [store EXCEPT ![call[1].key] = NoEnc]]_vars

\* C9 witness: a get has admitted a key into the full cache, evicting another
\* key, and the evicted key is still in the store.
C9_Witness ==
  /\ Done("get") /\ call[1].served = "engine" /\ call[1].out = "ok"
  /\ CacheCount(CacheState) = CacheSize
  /\ \E k \in StoreKeys : cache[k] = NoVal /\ committed[k] # NoVal

\* C10: on the open instance get(k) fails with 'Key not found' exactly when k
\* is not served from the cache and the engine reports not-found, fails with
\* 'Failed to retrieve value' exactly when the engine read fails for another
\* reason, and returns a value in every other case.
C10_GetOutcome ==
  (Done("get") /\ isOpen)
    => LET r == call[1]
           notFound == r.served = "engine" /\ r.eres = "LEVEL_NOT_FOUND"
           ioFailed == r.served = "engine" /\ IoFailed(r)
       IN /\ r.out = "Key not found" <=> notFound
          /\ r.out = "Failed to retrieve value" <=> ioFailed
          /\ (~notFound /\ ~ioFailed) => (r.out = "ok" /\ r.ret \in Values)
          /\ notFound <=> (r.served = "engine" /\ r.key \notin StoreKeys /\ ~IoFailed(r))

\* C10 witness: a get of a key in neither layer has failed with
\* 'Key not found'.
C10_Witness ==
  /\ Done("get") /\ isOpen
  /\ call[1].served = "engine" /\ call[1].eres = "LEVEL_NOT_FOUND"
  /\ call[1].out = "Key not found"

\* C11: on the open instance has(k) is answered from the cache exactly when k
\* is cached and fresh at the call; it returns true when it is answered from
\* the cache or the engine holds k, returns false without raising when the
\* engine reports not-found, and raises (with 'Failed to check key existence')
\* exactly when the engine read fails for another reason.
C11_HasOutcome ==
  /\ []((Done("has") /\ isOpen)
          => LET r == call[1] IN
             /\ r.served = "cache" => (r.out = "ok" /\ r.ret = "true")
             /\ r.out # "ok" <=> (r.served = "engine" /\ IoFailed(r))
             /\ r.out # "ok" => r.out = "Failed to check key existence"
             /\ r.out = "ok"
                  => /\ r.ret = "true" <=> (r.served = "cache" \/ r.key \in StoreKeys)
                     /\ r.ret = "false" <=> r.eres = "LEVEL_NOT_FOUND")
  /\ [][(call[1].pc = "idle" /\ call'[1].op = "has" /\ isOpen)
          => (call'[1].served = "cache"
                <=> (cache[call'[1].key] # NoVal
                     /\ now - cacheTimestamps[call'[1].key] <= Ttl))]_vars

\* C11 witness: a has of a key in neither layer has returned false.
C11_Witness ==
  /\ Done("has") /\ isOpen
  /\ call[1].served = "engine" /\ call[1].eres = "LEVEL_NOT_FOUND"
  /\ call[1].out = "ok" /\ call[1].ret = "false"

\* C12 as stated: for a key k successfully put and not deleted since, has(k)
\* returns true at every later time.
C12_HasAlwaysTrue ==
  (Done("has") /\ call[1].key \in durable)
    => (call[1].out = "ok" /\ call[1].ret = "true")

\* C12 as amended: for a key k successfully put and not deleted since, every
\* has(k) on the open instance whose engine read does not fail returns true,
\* however long after the put; no has(k) returns false, and one that does not
\* return true fails with 'Failed to check key existence' (the instance is
\* closed or the engine read failed).  A has(k) that finds the cached entry
\* older than ttl removes it from cache, timestamps and recency order and
\* asks the engine.
C12_ExpiryKeepsData ==
  /\ []((Done("has") /\ call[1].key \in durable)
          => /\ (isOpen /\ ~IoFailed(call[1]))
                  => (call[1].out = "ok" /\ call[1].ret = "true")
             /\ call[1].ret # "false"
             /\ call[1].out # "ok"
                  => (call[1].out = "Failed to check key existence"
                      /\ (~isOpen \/ IoFailed(call[1]))))
  /\ [][\A k \in Keys :
          (/\ call[1].pc = "idle" /\ call'[1].op = "has" /\ call'[1].key = k
           /\ isOpen
           /\ cache[k] # NoVal /\ now - cacheTimestamps[k] > Ttl)
            => /\ cache'[k] = NoVal /\ cacheTimestamps'[k] = NoTs
               /\ IndexOf(lruList', k, 1) = 0
               /\ call'[1].pc = "wait" /\ call'[1].eng = "get"]_vars

\* C12 witness: the store holds one key, put successfully; the cache is empty
\* and a has of that key, answered by the engine after the ttl has passed,
\* has returned true.
C12_Witness ==
  /\ Done("has") /\ isOpen /\ call[1].served = "engine"
  /\ call[1].key \in durable /\ committed[call[1].key] # NoVal
  /\ StoreKeys = {call[1].key} /\ deleted = {} /\ unsynced = {}
  /\ CacheCount(CacheState) = 0 /\ now > Ttl
  /\ call[1].out = "ok" /\ call[1].ret = "true"

\* C13: on the open instance a delete(k) fails, with 'Failed to delete
\* value', exactly when the engine delete fails; a delete(k) of a key absent
\* from the cache and from the persistent store leaves cache, timestamps,
\* recency order and store as they were at every step of the call, and so
\* succeeds without any change when the engine works.
C13_DeleteAbsent ==
  /\ []((Done("delete") /\ isOpen)
          => /\ call[1].out = "ok" <=> call[1].eres = "ok"
             /\ call[1].out # "ok"
                  => (call[1].out = "Failed to delete value" /\ IoFailed(call[1])))
  /\ [][\A k \in Keys :
          (/\ call'[1].op = "delete" /\ call'[1].key = k
           /\ cache[k] = NoVal /\ store[k] = NoEnc)
            => (cacheVars' = cacheVars /\ store' = store)]_vars

\* C13 witness: with two other keys cached and stored, the delete of a key
\* that is in neither layer has succeeded.
C13_Witness ==
  /\ Done("delete") /\ isOpen /\ call[1].out = "ok"
  /\ call[1].key \notin StoreKeys /\ cache[call[1].key] = NoVal
  /\ StoreKeys = Keys \ {call[1].key}
  /\ CachedKeys(CacheState) = Keys \ {call[1].key}
  /\ Len(lruList) = CacheSize

\* C14: constructing with no options, without dbPath or with the empty dbPath
\* throws 'dbPath is required for HybridStorage' in the constructor call
\* itself, before any field is assigned and before the engine is created, so
\* that no open instance exists; with a non-empty dbPath the constructor
\* returns an open instance with its engine.
C14_DbPathRequired ==
  instance.pc # "new"
    => IF ~options.given \/ options.dbPath \in {Absent, Given("")}
       THEN /\ instance.pc = "threw"
            /\ instance.error = "dbPath is required for HybridStorage"
            /\ ~instance.db /\ ~dbOpen /\ ~isOpen
            /\ instance.dbPath = Absent /\ instance.cacheSize = Absent
            /\ instance.ttl = Absent
       ELSE /\ instance.pc = "returned" /\ instance.db /\ isOpen
            /\ instance.dbPath = options.dbPath

\* C14 witness: the constructor has thrown for the empty dbPath given with a
\* cacheSize and a ttl.
C14_Witness ==
  /\ instance.pc = "threw"
  /\ options.given /\ options.dbPath = Given("")
  /\ options.cacheSize = Given(CacheSize) /\ options.ttl # Absent

\* C15: the constructed instance has exactly the cacheSize and the ttl the
\* caller gave, 0 included, and 1000 and 3,600,000 where the option is
\* omitted.
C15_OptionsTakenAsGiven ==
  instance.pc = "returned"
    => /\ instance.cacheSize =
            (IF options.cacheSize = Absent THEN Given(DefaultCacheSize)
             ELSE options.cacheSize)
       /\ instance.ttl =
            (IF options.ttl = Absent THEN Given(DefaultTtl) ELSE options.ttl)

\* The WebSockets that have an entry in the registry ps.
Registered(ps) == {ps[i].ws : i \in 1..Len(ps)}
\* The registry ps without the entries of WebSocket c.
Without(ps, c) == SelectSeq(ps, LAMBDA p : p.ws # c)

\* C16: after any sequence of connection, message and close events the
\* registry holds exactly one entry for each connection accepted and not yet
\* closed, under that connection's id; a connection appends one entry with an
\* id never used before, a message changes no entry, a close removes the
\* entry of its connection and no other, and a repeated close changes
\* nothing.
C16_RegistryMembership ==
  /\ [](/\ \A c \in Conns : sockets[c].status = "open" <=> c \in Registered(peers)
        /\ \A i, j \in 1..Len(peers) :
              (peers[i].ws = peers[j].ws \/ peers[i].id = peers[j].id) => i = j
        /\ \A i \in 1..Len(peers) :
              peers[i].ws \in Conns /\ peers[i].id = sockets[peers[i].ws].peer)
  /\ [][\A c \in Conns :
          /\ (sockets[c].status = "new" /\ sockets'[c].status # "new")
               => /\ Len(peers') = Len(peers) + 1
                  /\ SubSeq(peers', 1, Len(peers)) = peers
                  /\ peers'[Len(peers')].ws = c
                  /\ peers'[Len(peers')].id \notin
                       issued \cup {sockets[d].peer : d \in Conns}
          /\ (sockets[c].status = "open" /\ sockets'[c].status = "closed")
               => peers' = Without(peers, c)
          /\ (sockets[c].status = "closed" /\ event'.kind = "close" /\ event'.ws = c)
               => peers' = peers
          /\ event'.kind = "message" => peers' = peers]_vars

\* C16 witness: every id has been issued, the connection with the lowest id
\* has closed and the other connections are registered.
C16_Witness ==
  /\ event.kind = "close" /\ sockets[event.ws].status = "closed"
  /\ issued = PeerIds
  /\ Len(peers) = MaxConns - 1
  /\ \A i \in 1..Len(peers) : peers[i].id > event.peer

\* The content a message listener hands on for payload d.
ContentOf(d) == IF d \in JsonTexts THEN JsonParse(d) ELSE Text(d)

\* C17: a message delivered by a connection makes exactly one ws.send call,
\* with the text of {type: 'message', peer: sender id, content}, on the
\* WebSocket of every peer registered at that moment, the sender's included,
\* and none on any other WebSocket.
C17_FanOut ==
  [][event'.kind = "message"
       => LET env == Stringify([type |-> "message", peer |-> sockets[event'.ws].peer,
                                content |-> ContentOf(event'.data)])
          IN /\ event'.ws \in Registered(peers)
             /\ \A c \in Conns :
                  IF c \in Registered(peers)
                  THEN Len(sent'[c]) = 1 /\ sent'[c][1].data = env
                  ELSE sent'[c] = <<>>]_vars

\* C17 witness: with one connection closed and two open, a JSON message of
\* one of the two has been sent to both and not to the closed one.
C17_Witness ==
  /\ event.kind = "message" /\ event.data \in JsonTexts
  /\ \E c \in Conns : sockets[c].status = "closed" /\ sent[c] = <<>>
  /\ Len(peers) = 2
  /\ \A c \in Registered(peers) : Len(sent[c]) = 1 /\ ~sent[c][1].threw

C19_InitialPeerList ==
  /\ [](\A c \in Conns :
          sockets[c].status # "new"
            => sockets[c].log = <<"add", "send", "on:message", "on:close">>)
  /\ [][\A c \in Conns :
          (sockets[c].status = "new" /\ sockets'[c].status # "new")
            => /\ \A d \in Conns \ {c} : sent'[d] = <<>>
               /\ Len(sent'[c]) = 1
               /\ LET msg == sent'[c][1].data[2] IN
                  /\ sent'[c][1].data = Stringify(msg)
                  /\ msg.type = "all-peers"
                  /\ Len(msg.peers) = Len(peers')
                  /\ \A i \in 1..Len(peers') :
                       /\ DOMAIN msg.peers[i] = {"id", "connectionCreated", "lastActive"}
                       /\ msg.peers[i].id = peers'[i].id
                       /\ msg.peers[i].connectionCreated = peers'[i].connectionCreated
                       /\ msg.peers[i].lastActive = peers'[i].lastActive
                  /\ \E i \in 1..Len(msg.peers) : msg.peers[i].id = sockets'[c].peer]_vars

\* C19 witness: the third connection has been accepted after one of the
\* first two closed, and the list sent to it names two peers.
C19_Witness ==
  /\ event.kind = "connection" /\ issued = PeerIds
  /\ \E c \in Conns : sockets[c].status = "closed"
  /\ Len(sent[event.ws]) = 1
  /\ Len(sent[event.ws][1].data[2].peers) = 2

GetAdmits(c) ==
  /\ call[c].pc = "ready" /\ call[c].op = "get" /\ call[c].eres = "ok"
  /\ call'[c].pc = "done"

\* C21: whenever a get admits the value v it has read from the engine, also
\* after other calls ran while it was suspended, the cache, the timestamps
\* and the recency order it leaves are those addToCache(k, v) produces from
\* the state at that moment.
C21_ReadAdmitsAsWrite ==
  [][\A c \in Slots :
       GetAdmits(c)
         => LET cs == addToCache(CacheState, call[c].key, call[c].eval, now)
            IN cache' = cs.cache /\ cacheTimestamps' = cs.ts /\ lruList' = cs.lru]_vars

\* The number of places the key k has in the recency order s.
Places(s, k) == Cardinality({i \in 1..Len(s) : s[i] = k})

\* Both slots hold a completed get of the key k that read the engine and
\* admitted the value.
BothGetsAdmitted(k) ==
  \A c \in {1, 2} :
    /\ call[c].pc = "done" /\ call[c].op = "get" /\ call[c].key = k
    /\ call[c].served = "engine" /\ call[c].out = "ok"

\* C22: after two overlapping get(k) calls that both missed the cache, read
\* the engine and admitted k, the key is cached with the value read and
\* appears once in the recency order, as after a single get(k).
C22_SecondAdmissionIdempotent ==
  \A k \in Keys :
    BothGetsAdmitted(k)
      => (cache[k] = call[1].ret /\ Places(lruList, k) = 1)

\* No call is between two statements of a cache-only code path: every call
\* is idle, suspended on the engine or settled.
NoCachePathRunning == \A c \in Slots : call[c].pc \in {"idle", "wait", "done"}

\* C23: whatever the interleaving of overlapping calls, the cache holds at
\* most cacheSize entries whenever no cache-only code path is executing.
C23_CapacityUnderOverlap ==
  NoCachePathRunning => Cardinality(CachedKeys(CacheState)) <= CacheSize

\* The recency order holds each cached key exactly once and no other key,
\* and the timestamps are kept for exactly the cached keys.
Bookkeeping ==
  /\ \A k \in Keys : Places(lruList, k) = (IF cache[k] # NoVal THEN 1 ELSE 0)
  /\ \A k \in Keys : (cacheTimestamps[k] # NoTs) <=> (cache[k] # NoVal)

\* C24: when each call completes before the next starts, the bookkeeping of
\* the cache is consistent after every operation.
C24_BookkeepingSequential == Quiet => Bookkeeping

\* A get has admitted from the engine a key whose cached entry had gone, into
\* a cache it leaves full, in a run where a delete has succeeded before.
C24_Witness ==
  /\ Done("get") /\ call[1].served = "engine" /\ call[1].out = "ok"
  /\ cache[call[1].key] # NoVal
  /\ Cardinality(CachedKeys(CacheState)) = CacheSize
  /\ deleted # {}

\* C25: whatever the interleaving of overlapping calls, the recency order
\* holds each cached key exactly once and no other key, and the timestamps
\* are kept for exactly the cached keys, whenever no cache-only code path is
\* executing.
C25_BookkeepingUnderOverlap == NoCachePathRunning => Bookkeeping

\* The call in slot c has completed successfully as operation o on key k.
Succeeded(c, o, k) ==
  call[c].pc = "done" /\ call[c].op = o /\ call[c].key = k /\ call[c].out = "ok"

\* The call in slot c was made before the call in slot d.
CalledBefore(c, d) == call[c].seq < call[d].seq

\* C26: when a get(k) that read the engine and a delete(k) that was called
\* while that get was in progress have both completed successfully, k is not
\* in the cache.
C26_DeleteNotUndone ==
  \A k \in Keys : \A g, d \in Slots :
    (/\ Succeeded(g, "get", k) /\ call[g].served = "engine"
     /\ Succeeded(d, "delete", k) /\ CalledBefore(g, d))
      => cache[k] = NoVal

\* C27: when a get(k) that read the engine and a put(k, v2) that was called
\* while that get was in progress have both completed successfully, the cache
\* holds v2 for k.
C27_WriteNotOverwritten ==
  \A k \in Keys : \A g, p \in Slots :
    (/\ Succeeded(g, "get", k) /\ call[g].served = "engine"
     /\ Succeeded(p, "put", k) /\ CalledBefore(g, p))
      => cache[k] = call[p].val

\* The engine completes the write of the put in slot c.
EngineWrites(c) ==
  /\ call[c].pc = "wait" /\ call[c].eng = "put"
  /\ call'[c].pc = "ready" /\ call'[c].eres = "ok"

\* The put in slot c is called in this step and reaches its engine write.
PutCalled(c) == call[c].pc = "idle" /\ call'[c].op = "put" /\ call'[c].pc = "wait"

\* The calls in slots a and b are the only ones in progress since the first
\* of them was made: a was made when no call was in progress, b next, and
\* no call since.
OnlyTwo(a, b) ==
  /\ call[a].alone
  /\ call[b].seq = call[a].seq + 1
  /\ started = call[b].seq + 1

\* C28: a put(k, v) that passes the open check caches v for k before it
\* suspends, and the engine stores v for k when it completes the write,
\* whatever other calls are in progress; so when two overlapping puts of k
\* have both succeeded, and no other call ran with them, the cache holds the
\* value of the put called last and the store the value of one of the two,
\* the one written last.
C28_LastAdmissionLastWrite ==
  /\ [][\A c \in Slots :
          /\ PutCalled(c) => cache'[call'[c].key] = call'[c].val
          /\ EngineWrites(c)
               => store' = [store EXCEPT ![call[c].key] = Encode(call[c].val)]]_vars
  /\ [](\A k \in Keys : \A a, b \in Slots :
          (Succeeded(a, "put", k) /\ Succeeded(b, "put", k) /\ OnlyTwo(a, b))
            => /\ cache[k] = call[b].val
               /\ store[k] \in {Encode(call[a].val), Encode(call[b].val)})

\* Two overlapping puts of one key, with no other call, have both succeeded
\* and the cached value differs from the stored one.
C28_Witness ==
  \E k \in Keys : \E a, b \in Slots :
    /\ Succeeded(a, "put", k) /\ Succeeded(b, "put", k) /\ OnlyTwo(a, b)
    /\ cache[k] = call[b].val
    /\ store[k] = Encode(call[a].val)
    /\ call[a].val # call[b].val

\* C29: once a close() has completed successfully the cache, the timestamps
\* and the recency order are empty and stay empty, whatever calls were
\* suspended on the engine when close was called and resume afterwards.
C29_EmptyAfterClose == ~isOpen => CacheState = Cleared

\* A close has succeeded, and a get or put that was called before it and was
\* suspended on the engine has resumed after the engine was closed.
C29_Witness ==
  \E c, d \in Slots :
    /\ Succeeded(c, "close", "") /\ ~isOpen
    /\ call[d].pc = "done" /\ call[d].op \in {"get", "put"}
    /\ CalledBefore(d, c)
    /\ call[d].eres = "LEVEL_DATABASE_NOT_OPEN"

\* The engine fails the write of the put in slot c.
EngineFailsWrite(c) ==
  /\ call[c].pc = "wait" /\ call[c].eng = "put"
  /\ call'[c].pc = "ready" /\ call'[c].eres # "ok"

\* The put in slot c resumes after its write failed.
FailedPutResumes(c) ==
  /\ call[c].pc = "ready" /\ call[c].op = "put" /\ call[c].eres # "ok"
  /\ call'[c].pc = "done"

\* C30: a put(k, v) on the open instance caches k -> v at the most recently
\* used position with the timestamp of the call before its engine write,
\* having evicted the least recently used entry if k was new and the cache
\* was full; a failing engine write leaves the store as it was, and the put
\* then fails with 'Failed to store value' and leaves the cache as it is.
C30_FailedWriteLeavesValue ==
  [][/\ PutCalled(1)
        => /\ cache'[call'[1].key] = call'[1].val
           /\ cacheTimestamps'[call'[1].key] = now
           /\ lruList'[Len(lruList')] = call'[1].key
           /\ ((cache[call'[1].key] = NoVal /\ CacheCount(CacheState) >= CacheSize)
                 => cache'[lruList[1]] = NoVal)
     /\ EngineFailsWrite(1) => store' = store
     /\ FailedPutResumes(1)
        => /\ call'[1].out = "Failed to store value"
           /\ UNCHANGED <<cacheVars, store>>]_vars

\* The operation o is called in this step on the open instance for a key
\* that is cached and not older than ttl.
CalledOnFresh(o) ==
  /\ call[1].pc = "idle" /\ call'[1].op = o
  /\ isOpen
  /\ cache[call'[1].key] # NoVal
  /\ now - cacheTimestamps[call'[1].key] <= Ttl

\* C31: a get(k) that finds k cached and not older than ttl settles with the
\* cached value without an engine call, moves k to the tail of the recency
\* order, sets the timestamp of k to the current time and changes nothing
\* else; so k stays fresh for another ttl from this read.
C31_SlidingTtl ==
  [][CalledOnFresh("get")
       => LET k == call'[1].key IN
          /\ call'[1].pc = "done" /\ call'[1].out = "ok" /\ call'[1].ret = cache[k]
          /\ call'[1].eng = ""
          /\ cache' = cache
          /\ cacheTimestamps' = [cacheTimestamps EXCEPT ![k] = now]
          /\ lruList' = Append(RemoveFromLru(lruList, k), k)
          /\ UNCHANGED <<isOpen, store, dbOpen, now>>]_vars

\* A get has been served from a full cache at the last instant of the clock,
\* later than ttl after the start: the key it read is at the tail with the
\* timestamp of the read, and another cached key has an older timestamp.
C31_Witness ==
  /\ Done("get") /\ call[1].served = "cache" /\ call[1].out = "ok"
  /\ now = MaxTime /\ now > Ttl
  /\ Len(lruList) = CacheSize
  /\ lruList[Len(lruList)] = call[1].key
  /\ cacheTimestamps[call[1].key] = now
  /\ \E k \in Keys : cache[k] # NoVal /\ cacheTimestamps[k] < now

\* The operation o is called in this step on the open instance for a key
\* that is cached and older than ttl.
CalledOnStale(o) ==
  /\ call[1].pc = "idle" /\ call'[1].op = o
  /\ isOpen
  /\ cache[call'[1].key] # NoVal
  /\ now - cacheTimestamps[call'[1].key] > Ttl

\* The get that removed a stale entry of its key resumes after the engine read.
ExpiredGetResumes ==
  /\ call[1].pc = "ready" /\ call[1].op = "get" /\ call[1].expired
  /\ call'[1].pc = "done"

\* C32, as stated: every get(k) that found the entry of k older than ttl
\* returns the value the persistent store holds for k and leaves it cached.
C32_StaleReadReturnsStored ==
  (Done("get") /\ call[1].expired)
    => /\ call[1].out = "ok"
       /\ store[call[1].key] # NoEnc
       /\ call[1].ret = Decode(store[call[1].key])
       /\ cache[call[1].key] = call[1].ret

\* C32, amended: get(k) and has(k) answer from the cache, without an engine
\* call, when the entry of k is not older than ttl; when it is older they
\* remove it from cache, timestamps and recency order, leave the other
\* entries and the store alone and ask the engine; the get then returns and
\* re-admits, with the current time, the value the engine read from the store,
\* or fails and re-admits nothing when the engine read fails.
C32_FreshnessBoundary ==
  /\ [][(CalledOnFresh("get") \/ CalledOnFresh("has"))
          => /\ call'[1].pc = "done" /\ call'[1].out = "ok"
             /\ call'[1].served = "cache" /\ call'[1].eng = ""]_vars
  /\ [][(CalledOnStale("get") \/ CalledOnStale("has"))
          => LET k == call'[1].key IN
             /\ call'[1].pc = "wait" /\ call'[1].eng = "get"
             /\ cache' = [cache EXCEPT ![k] = NoVal]
             /\ cacheTimestamps' = [cacheTimestamps EXCEPT ![k] = NoTs]
             /\ lruList' = RemoveFromLru(lruList, k)
             /\ store' = store]_vars
  /\ [][ExpiredGetResumes
          => LET k == call[1].key IN
             IF call[1].eres = "ok"
             THEN /\ call'[1].out = "ok"
                  /\ call'[1].ret = Decode(store[k])
                  /\ cache'[k] = Decode(store[k])
                  /\ cacheTimestamps'[k] = now
             ELSE /\ call'[1].out # "ok"
                  /\ UNCHANGED cacheVars]_vars

\* A get found the entry of its key older than ttl, after a later put of the
\* key had failed, and has returned and re-admitted the value of the store.
C32_Witness ==
  /\ Done("get") /\ call[1].expired /\ call[1].out = "ok"
  /\ committed[call[1].key] = NoVal
  /\ call[1].ret = Decode(store[call[1].key])
  /\ cache[call[1].key] = call[1].ret
  /\ cacheTimestamps[call[1].key] = now

\* C33: a put(k, v) that finds k cached and the cache at capacity evicts no
\* entry: it replaces the value of k, sets the timestamp of k to the current
\* time and moves k to the tail of the recency order; the cached keys and the
\* order of the other keys stay as they were.
C33_UpdateNeverEvicts ==
  [][(PutCalled(1) /\ cache[call'[1].key] # NoVal /\ CacheCount(CacheState) >= CacheSize)
       => LET k == call'[1].key IN
          /\ cache' = [cache EXCEPT ![k] = call'[1].val]
          /\ cacheTimestamps' = [cacheTimestamps EXCEPT ![k] = now]
          /\ lruList' = Append(RemoveFromLru(lruList, k), k)]_vars

\* The third call of a run is put('k1', 'v2') after successful puts of
\* 'k1' and of another key filled the cache: both keys are still cached,
\* 'k1' with the new value at the tail of the recency order.
C33_Witness ==
  /\ call[1].op = "put" /\ call[1].pc = "wait" /\ call[1].seq = 2
  /\ call[1].key = "k1" /\ call[1].val = "v2"
  /\ store["k1"] = Encode("v1")
  /\ cache["k1"] = "v2"
  /\ \E x \in Keys \ {"k1"} :
       store[x] # NoEnc /\ cache[x] # NoVal /\ lruList = <<x, "k1">>

\* The call in slot c issues an engine call in this step.
EngineCallIssued(c) == call[c].pc # "wait" /\ call'[c].pc = "wait"

\* The call in slot c resumes in this step after the engine failed its call.
ResumesAfterFailure(c) ==
  call[c].pc = "ready" /\ call[c].eres # "ok" /\ call'[c] # call[c]

\* An invocation issues its engine call when it is made and no other: a call
\* that the engine has answered settles without going back to the engine.
OneEngineCall ==
  \A c \in Slots :
    /\ EngineCallIssued(c) => call[c].pc = "idle"
    /\ (call[c].pc = "ready" /\ call'[c] # call[c]) => call'[c].pc = "done"

\* C34, as stated: every invocation issues at most one engine call, and when
\* that call fails the operation fails without another engine call.
C34_FailureFailsAtOnce ==
  [][/\ OneEngineCall
     /\ \A c \in Slots : ResumesAfterFailure(c) => call'[c].out # "ok"]_vars

\* C34, amended: every invocation issues at most one engine call, and when
\* that call fails the operation settles without another engine call: it
\* fails, except that has answers false when the engine found no value.
C34_NoRetry ==
  [][/\ OneEngineCall
     /\ \A c \in Slots :
          ResumesAfterFailure(c)
            => IF call[c].op = "has" /\ call[c].eres = "LEVEL_NOT_FOUND"
               THEN call'[c].out = "ok" /\ call'[c].ret = "false"
               ELSE call'[c].out = FailureOf(call[c].op)
                      \/ (call[c].op = "get" /\ call'[c].out = "Key not found")]_vars

\* The third or a later call of a run has failed on an I/O error of its one
\* engine call.
C34_Witness ==
  /\ call[1].pc = "done" /\ call[1].eres = "EIO" /\ call[1].out # "ok"
  /\ call[1].seq >= 2

\* A has is called, resumes or returns in this step.
HasActs ==
  \/ call[1].pc = "idle" /\ call'[1].op = "has"
  \/ call[1].op = "has" /\ call'[1] # call[1]

\* C35: no step of a has(k) admits an entry, moves a key in the recency
\* order, changes a timestamp or removes a fresh entry: it leaves the cache
\* as it is or removes the entry of k that is older than ttl.
C35_HasIsNoAccess ==
  [][HasActs
       => \/ UNCHANGED cacheVars
          \/ LET k == call'[1].key IN
             /\ call[1].pc = "idle"
             /\ cache[k] # NoVal /\ now - cacheTimestamps[k] > Ttl
             /\ cache' = [cache EXCEPT ![k] = NoVal]
             /\ cacheTimestamps' = [cacheTimestamps EXCEPT ![k] = NoTs]
             /\ lruList' = RemoveFromLru(lruList, k)]_vars

\* A has has answered true from a full cache for the key at the head of the
\* recency order, whose timestamp is older than the current time: the key is
\* still the next one to be evicted and its age still counts from its
\* admission.
C35_Witness ==
  /\ Done("has") /\ call[1].served = "cache" /\ call[1].ret = "true"
  /\ Len(lruList) = CacheSize
  /\ lruList[1] = call[1].key
  /\ cacheTimestamps[call[1].key] < now

\* A get is called in this step on the open instance and goes to the engine.
GetAsksEngine ==
  call[1].pc = "idle" /\ call'[1].op = "get" /\ call'[1].pc = "wait"

\* The get resumes in this step after the engine failed the read.
FailedGetResumes ==
  /\ call[1].pc = "ready" /\ call[1].op = "get" /\ call[1].eres # "ok"
  /\ call'[1].pc = "done"

\* C36: a get(k) on the open instance that goes to the engine changes the
\* cache before the read only by removing the entry of k that is older than
\* ttl, and when the read fails (not found, or another engine failure) the
\* get fails and changes nothing in the cache: no other key is evicted or
\* moved, and the removal is not undone.
C36_FailedReadEvictsNothing ==
  [][/\ GetAsksEngine
        => LET k == call'[1].key IN
           \/ UNCHANGED cacheVars
           \/ /\ cache[k] # NoVal /\ now - cacheTimestamps[k] > Ttl
              /\ cache' = [cache EXCEPT ![k] = NoVal]
              /\ cacheTimestamps' = [cacheTimestamps EXCEPT ![k] = NoTs]
              /\ lruList' = RemoveFromLru(lruList, k)
     /\ FailedGetResumes
        => /\ call'[1].out \in {"Key not found", FailureOf("get")}
           /\ UNCHANGED cacheVars]_vars

\* A get of a key that is not cached has failed while the cache is full.
C36_Witness ==
  /\ Done("get") /\ call[1].served = "engine" /\ call[1].out # "ok"
  /\ isOpen
  /\ cache[call[1].key] = NoVal
  /\ CacheCount(CacheState) >= CacheSize
  /\ Len(lruList) >= CacheSize

\* A delete is called in this step on the open instance.
DeleteCalled ==
  call[1].pc = "idle" /\ call'[1].op = "delete" /\ call'[1].pc = "wait"

\* The engine fails the delete it was asked for.
EngineFailsDelete ==
  /\ call[1].pc = "wait" /\ call[1].eng = "del"
  /\ call'[1].pc = "ready" /\ call'[1].eres # "ok"

\* The delete resumes in this step after the engine failed.
FailedDeleteResumes ==
  /\ call[1].pc = "ready" /\ call[1].op = "delete" /\ call[1].eres # "ok"
  /\ call'[1].pc = "done"

\* The third call of a run, a get(k), has completed after put(k, v) succeeded
\* and delete(k) failed: k was put durably and not deleted, the call before
\* the get withdrew the committed value, and the get found no entry of k.
GetAfterFailedDelete ==
  /\ Done("get") /\ call[1].seq = 2
  /\ call[1].key \in durable
  /\ committed[call[1].key] = NoVal
  /\ call[1].served = "engine" /\ ~call[1].expired

\* C37, as stated: the get(k) that follows a failed delete(k) returns the
\* value that was durable before the delete and re-admits it.
C37_GetAfterFailedDeleteReturns ==
  GetAfterFailedDelete
    => /\ call[1].out = "ok"
       /\ call[1].ret = Decode(store[call[1].key])
       /\ cache[call[1].key] = call[1].ret

\* C37, amended: delete(k) on the open instance removes the entry of k from
\* the cache before the engine delete; a failing engine delete leaves the
\* store as it was, and the delete then fails with 'Failed to delete value'
\* and changes neither cache nor store.  The get(k) that follows returns and
\* re-admits the value of the store when its engine read succeeds, and fails
\* without admitting anything when that read fails too.
C37_FailedDelete ==
  /\ [][/\ DeleteCalled
           => LET k == call'[1].key IN
              /\ cache' = [cache EXCEPT ![k] = NoVal]
              /\ cacheTimestamps' = [cacheTimestamps EXCEPT ![k] = NoTs]
              /\ lruList' = RemoveFromLru(lruList, k)
              /\ store' = store
        /\ EngineFailsDelete => store' = store
        /\ FailedDeleteResumes
           => /\ call'[1].out = "Failed to delete value"
              /\ UNCHANGED <<cacheVars, store>>]_vars
  /\ [](GetAfterFailedDelete
          => LET k == call[1].key IN
             /\ store[k] # NoEnc
             /\ IF call[1].eres = "ok"
                THEN /\ call[1].out = "ok"
                     /\ call[1].ret = Decode(store[k])
                     /\ cache[k] = call[1].ret
                ELSE /\ call[1].out = "Failed to retrieve value"
                     /\ cache[k] = NoVal)

\* put(k, v) succeeded, delete(k) failed, and the get(k) that followed has
\* returned the stored value and cached it again.
C37_Witness ==
  /\ GetAfterFailedDelete
  /\ call[1].out = "ok"
  /\ call[1].ret = Decode(store[call[1].key])
  /\ cache[call[1].key] = call[1].ret
  /\ lruList = <<call[1].key>>

\* The close resumes in this step after the engine failed to close.
FailedCloseResumes ==
  /\ call[1].pc = "ready" /\ call[1].op = "close" /\ call[1].eres # "ok"
  /\ call'[1].pc = "done"

\* A close is called in this step.
CloseCalled == call[1].pc = "idle" /\ call'[1].op = "close"

\* C38: when the engine close fails, close() fails with 'Failed to close
\* database' and leaves the open flag, the cache, the timestamps and the
\* recency order as they are; a close() called on the open instance asks the
\* engine to close, also after a failed one; and the open flag becomes false
\* only in the continuation of a close whose engine close succeeded.
C38_FailedCloseKeepsOpen ==
  [][/\ FailedCloseResumes
        => /\ call'[1].out = "Failed to close database"
           /\ isOpen' /\ isOpen
           /\ UNCHANGED <<cacheVars, store>>
     /\ (CloseCalled /\ isOpen)
        => call'[1].pc = "wait" /\ call'[1].eng = "close"
     /\ (isOpen /\ ~isOpen')
        => call[1].pc = "ready" /\ call[1].op = "close" /\ call[1].eres = "ok"]_vars

\* A close has failed on an instance whose cache is full: the instance is
\* still open, the engine too, and the entries are still cached.
C38_Witness ==
  /\ Done("close") /\ call[1].out = "Failed to close database"
  /\ isOpen /\ dbOpen
  /\ CacheCount(CacheState) = CacheSize
  /\ Len(lruList) = CacheSize

\* A new key is admitted in this step into a cache that is full: by a put
\* before its engine write, or by a get after its engine read.
AdmitsNewIntoFull ==
  /\ CacheCount(CacheState) >= CacheSize
  /\ \/ PutCalled(1) /\ cache[call'[1].key] = NoVal
     \/ GetAdmits(1) /\ cache[call[1].key] = NoVal

\* C39: whenever a new key is admitted into a full cache, the key at the head
\* of the recency order is removed from cache, timestamps and recency order,
\* whatever that key is, and the cache does not grow.
C39_EvictionForEveryKey ==
  [][AdmitsNewIntoFull
       => /\ cache'[lruList[1]] = NoVal
          /\ cacheTimestamps'[lruList[1]] = NoTs
          /\ Places(lruList', lruList[1]) = 0
          /\ CacheCount([cache |-> cache', ts |-> cacheTimestamps', lru |-> lruList'])
               <= CacheCount(CacheState)]_vars

====
